---- MODULE Spec2Model ----
(***************************************************************************)
(* A model of ConfigParser (src/src/parser.py): the recursive-descent      *)
(* parser of the "variant 21" configuration language.                      *)
(*                                                                         *)
(* The parser instance is the fields text, pos, line, column, constants.   *)
(* Python's call stack is the variable stack: one frame per active method, *)
(* with its program position (pc) and its locals.  One action per method   *)
(* executes that method from its position to its next call, loop edge,     *)
(* return or raise.  peek, consume, match, error and reset call nothing    *)
(* and are operators.  A text is a sequence of characters, each character  *)
(* a one-character string ("U+0411" stands for the Cyrillic capital BE).   *)
(***************************************************************************)
EXTENDS Integers, Sequences, FiniteSets, TLC

(* ------------------------------------------------------------------ *)
(* Bounds of the model                                                 *)
(* ------------------------------------------------------------------ *)

\* longest run of binary digits in the generated number literals
MaxDigits == 2

\* most parse calls made on one instance in the reuse schedules
MaxCalls == 3

(* ------------------------------------------------------------------ *)
(* Characters                                                          *)
(* ------------------------------------------------------------------ *)

\* the characters str.isupper() accepts: A-Z ...
AsciiUpper == {"A", "B", "T", "X", "Y"}

\* ... and every other uppercase letter of Unicode
NonAsciiUpper == {"U+0411"}

isupper(ch) == ch \in AsciiUpper \cup NonAsciiUpper

\* str.lower() on one character
lowerChar(ch) ==
    CASE ch = "A" -> "a"
      [] ch = "B" -> "b"
      [] ch = "T" -> "t"
      [] ch = "X" -> "x"
      [] ch = "Y" -> "y"
      [] ch = "U+0411" -> "U+0431"
      [] OTHER -> ch

lower(s) == [i \in DOMAIN s |-> lowerChar(s[i])]

\* int(binary_str, 2) on a run of the characters 0 and 1
RECURSIVE int2(_)
int2(s) ==
    IF s = <<>> THEN 0
    ELSE 2 * int2(SubSeq(s, 1, Len(s) - 1)) + (IF s[Len(s)] = "1" THEN 1 ELSE 0)

(* ------------------------------------------------------------------ *)
(* Values, outcomes, messages                                          *)
(* ------------------------------------------------------------------ *)

None == [tag |-> "none", val |-> 0]
IntV(n) == [tag |-> "int", val |-> n]
\* a name, as parse_name returns it
NameV(s) == [tag |-> "name", val |-> s]
\* a dict: a function from names to values
TableV(f) == [tag |-> "table", val |-> f]
EmptyDict == <<>>
SetItem(f, k, v) == [x \in (DOMAIN f) \cup {k} |-> IF x = k THEN v ELSE f[x]]

\* the messages of the ParserErrors the parser raises
ErrUnterminatedComment == "UnterminatedComment"
ErrExpectedName == "ExpectedName"
ErrExpectedBinaryNumber == "ExpectedBinaryNumber"
ErrMissingBinaryDigits == "MissingBinaryDigits"
\* raised on int()'s ValueError, which a run of 0 and 1 never gives
ErrInvalidBinaryNumber == "InvalidBinaryNumber"
ErrExpectedRefDot == "ExpectedRefDot"
ErrExpectedRefOpenParen == "ExpectedRefOpenParen"
ErrExpectedRefCloseParen == "ExpectedRefCloseParen"
ErrExpectedTrailingDot == "ExpectedTrailingDot"
ErrUndefinedConstant == "UndefinedConstant"
ErrExpectedValue == "ExpectedValue"
ErrExpectedTable == "ExpectedTable"
ErrExpectedTableOpenParen == "ExpectedTableOpenParen"
ErrExpectedOpenBracket == "ExpectedOpenBracket"
ErrExpectedTableCloseParen == "ExpectedTableCloseParen"
ErrExpectedComma == "ExpectedComma"
ErrExpectedEquals == "ExpectedEquals"
ErrExpectedDash == "ExpectedDash"
ErrExpectedGreater == "ExpectedGreater"

\* what a parse call gives its caller: the returned dict, or a ParserError
Returned(v) == [kind |-> "returned", value |-> v, line |-> 0, column |-> 0]
ParserError(message, l, c) == [kind |-> message, value |-> None, line |-> l, column |-> c]
NoOutcome == [kind |-> "none", value |-> None, line |-> 0, column |-> 0]

(* ------------------------------------------------------------------ *)
(* Texts: tokens, documents, and the calls the callers make            *)
(* ------------------------------------------------------------------ *)

RECURSIVE Flatten(_)
Flatten(toks) == IF toks = <<>> THEN <<>> ELSE Head(toks) \o Flatten(Tail(toks))

InsertAt(s, i, frag) == SubSeq(s, 1, i) \o frag \o SubSeq(s, i + 1, Len(s))

KwTable == <<"t", "a", "b", "l", "e">>
LParen == <<"(">>
RParen == <<")">>
LBracket == <<"[">>
RBracket == <<"]">>
Comma == <<",">>
Equals == <<"=">>
Dot == <<".">>
Semi == <<";">>
Arrow == <<"-", ">">>
NameA == <<"A">>
NameAB == <<"A", "B">>
NameT == <<"T">>
NameX == <<"X">>
NameY == <<"Y">>
Sp == <<" ">>
Nl == <<"\n">>
CommentOpen == <<"|", "#">>
CommentClose == <<"#", "|">>
Comment == <<"|", "#", "x", "\n", "#", "|">>

DigitRuns == UNION {[1..k -> {"0", "1"}] : k \in 1..MaxDigits}
Bin(b, digits) == <<"0", b>> \o digits
BinOne == Bin("b", <<"1">>)
BinTwo == Bin("B", <<"1", "0">>)
Ref(name) == <<Dot, LParen, name, RParen, Dot>>

\* documents of the grammar, token by token
DocDecl == <<BinOne, Arrow, NameX>>
DocRedeclThenRef ==
    <<BinOne, Arrow, NameX, Semi, BinTwo, Arrow, NameX>> \o Ref(NameX) \o <<Arrow, NameY>>
DocRefThenRedecl ==
    <<BinOne, Arrow, NameX>> \o Ref(NameX) \o <<Arrow, NameY, Semi, BinTwo, Arrow, NameX>>
DocUndefined == Ref(NameX) \o <<Arrow, NameY>>
DocEmptyTable == <<KwTable, LParen, LBracket, RBracket, RParen>>
DocTable ==
    <<KwTable, LParen, LBracket, NameA, Equals, BinOne, Comma, NameAB, Equals, BinTwo,
      RBracket, RParen>>
DocNested ==
    <<KwTable, LParen, LBracket, NameA, Equals,
      KwTable, LParen, LBracket, NameX, Equals, BinOne, RBracket, RParen,
      Comma, NameY, Equals, BinTwo, RBracket, RParen>>
DocDeclThenTable ==
    <<BinOne, Arrow, NameX, KwTable, LParen, LBracket, NameA, Equals>> \o Ref(NameX)
        \o <<RBracket, RParen>>
DocTableConstant == DocDeclThenTable \o <<Arrow, NameY>>

TokenDocs ==
    {DocDecl, DocRedeclThenRef, DocRefThenRedecl, DocUndefined, DocEmptyTable, DocTable,
     DocNested, DocDeclThenTable, DocTableConstant}

\* a document laid out over several lines, as the tests write them
DocLines ==
    Flatten(<<Nl, BinOne, Sp, Arrow, <<"\t">>, NameX, Semi, <<"\r">>, Nl, Comment, Sp, BinTwo,
              Sp, Arrow, Sp, NameAB, Nl>>)

\* value -> T for every number literal of the bounds, and the same with the
\* character 2 directly after the digits
BinDocs ==
    {Flatten(<<Bin(b, d), Sp, Arrow, Sp, NameT>>) : b \in {"b", "B"}, d \in DigitRuns}
InvalidBinDocs ==
    {Flatten(<<Bin(b, d), <<"2">>, Sp, Arrow, Sp, NameT>>) : b \in {"b", "B"}, d \in DigitRuns}

\* X declared twice, referenced after, or between, the two declarations
RedeclThenRefDoc(d1, d2) ==
    Flatten(<<Bin("b", d1), Sp, Arrow, Sp, NameX, Nl, Bin("b", d2), Sp, Arrow, Sp, NameX, Nl>>
            \o Ref(NameX) \o <<Sp, Arrow, Sp, NameY>>)
RefThenRedeclDoc(d1, d2) ==
    Flatten(<<Bin("b", d1), Sp, Arrow, Sp, NameX, Nl>> \o Ref(NameX)
            \o <<Sp, Arrow, Sp, NameY, Nl, Bin("b", d2), Sp, Arrow, Sp, NameX>>)
RedeclDocs ==
    {RedeclThenRefDoc(d1, d2) : d1, d2 \in DigitRuns}
        \cup {RefThenRedeclDoc(d1, d2) : d1, d2 \in DigitRuns}

\* what is put into a document to vary it
Fragments ==
    {Sp, Nl, Comment, CommentOpen, Comma, <<"2">>, <<"a">>, <<"_">>, <<"U+0411">>}
Varied(t) ==
    {InsertAt(t, i, frag) : i \in 0..Len(t), frag \in Fragments}
        \cup {SubSeq(t, 1, i) : i \in 0..Len(t)}

Texts ==
    UNION {Varied(Flatten(d)) : d \in TokenDocs}
        \cup Varied(DocLines) \cup BinDocs \cup InvalidBinDocs \cup RedeclDocs

\* a table text, and the same text with a comma (and whitespace) put before a ']'
\* that closes a table with at least one entry
TrailingCommaVariants(t) ==
    {InsertAt(t, i - 1, sep) :
        i \in {j \in 2..Len(t) : t[j] = "]" /\ t[j - 1] \notin {"[", ","}},
        sep \in {Comma, Comma \o Sp, Comma \o Nl}}
TrailingCommaPairs ==
    UNION {{<<Flatten(d), v>> : v \in TrailingCommaVariants(Flatten(d))} :
              d \in {DocTable, DocNested, DocTableConstant}}

\* a document, and the same document with whitespace or a terminated comment put
\* between two adjacent tokens
Separators == {Sp, Nl, Comment}
TokenInsert(d, i, sep) == Flatten(SubSeq(d, 1, i) \o <<sep>> \o SubSeq(d, i + 1, Len(d)))
SeparatedPairs ==
    UNION {{<<Flatten(d), TokenInsert(d, i, sep)>> : i \in 1..(Len(d) - 1), sep \in Separators} :
              d \in TokenDocs}

\* the texts of the calls made one after another on one instance
ReuseTexts ==
    {Flatten(DocDecl), Flatten(DocUndefined), Flatten(DocTable),
     Flatten(<<BinOne, Nl, Arrow, <<"a">>>>)}
ReuseSchedules == UNION {[1..k -> ReuseTexts] : k \in 1..MaxCalls}

\* the calls a caller makes on one ConfigParser, in order
Schedules ==
    {<<t>> : t \in Texts} \cup TrailingCommaPairs \cup SeparatedPairs \cup ReuseSchedules

(* ------------------------------------------------------------------ *)
(* State                                                               *)
(* ------------------------------------------------------------------ *)

VARIABLES
    text,       \* self.text
    pos,        \* self.pos
    line,       \* self.line
    column,     \* self.column
    constants,  \* self.constants
    stack,      \* the active method calls, the innermost last
    ret,        \* the value the last finished method returned
    status,     \* "idle", "running", "returned" or "raised": the current parse call
    outcome,    \* what the last finished parse call gave its caller
    queue,      \* the texts of the calls the caller has still to make
    log,        \* history: the text and outcome of every finished parse call
    decls       \* history: the <<name, value>> bound by this call's declarations, in order

vars == <<text, pos, line, column, constants, stack, ret, status, outcome, queue, log, decls>>

\* a method's frame; mark is history: the position at the start of the current
\* iteration of the method's loop (-1 before the first)
Frame(fn) ==
    [fn |-> fn, pc |-> "begin", start |-> 0, name |-> <<>>, value |-> None,
     result |-> EmptyDict, first |-> TRUE, mark |-> -1]

Top == stack[Len(stack)]
At(fn) == status = "running" /\ stack # <<>> /\ Top.fn = fn

Cursor == [pos |-> pos, line |-> line, column |-> column]
SetCursor(c) == pos' = c.pos /\ line' = c.line /\ column' = c.column

(* ------------------------------------------------------------------ *)
(* The methods that call nothing                                       *)
(* ------------------------------------------------------------------ *)

\* reset() as it would be with the line self.constants = {} missing
reset_keeps_constants == [pos |-> 0, line |-> 1, column |-> 1, constants |-> constants]

\* reset(): the fields at the start of every parse call
reset == [pos |-> 0, line |-> 1, column |-> 1, constants |-> EmptyDict]

\* peek(n) at position p
peek(p, n) == IF p + n <= Len(text) THEN SubSeq(text, p + 1, p + n) ELSE <<>>

\* consume's round as it would be without its line-feed branch
consumeChar_ignores_line_feed(c) ==
    IF c.pos >= Len(text) THEN c
    ELSE [pos |-> c.pos + 1, line |-> c.line, column |-> c.column + 1]

\* consume's round as it would be with the line self.pos += 1 missing
consumeChar_keeps_pos(c) ==
    IF c.pos >= Len(text) THEN c
    ELSE IF text[c.pos + 1] = "\n"
         THEN [pos |-> c.pos, line |-> c.line + 1, column |-> 1]
         ELSE [pos |-> c.pos, line |-> c.line, column |-> c.column + 1]

\* one round of consume's loop
consumeChar(c) ==
    IF c.pos >= Len(text) THEN c
    ELSE IF text[c.pos + 1] = "\n"
         THEN [pos |-> c.pos + 1, line |-> c.line + 1, column |-> 1]
         ELSE [pos |-> c.pos + 1, line |-> c.line, column |-> c.column + 1]

RECURSIVE consume(_, _)
consume(c, n) == IF n = 0 THEN c ELSE consume(consumeChar(c), n - 1)

\* match(expected): whether it matched, and the cursor after it
match(c, expected) ==
    IF peek(c.pos, Len(expected)) = expected
    THEN [ok |-> TRUE, cur |-> consume(c, Len(expected))]
    ELSE [ok |-> FALSE, cur |-> c]

\* error(message) with the cursor at c: the ParserError leaves every method and
\* reaches the caller of parse
error(message, c) ==
    /\ SetCursor(c)
    /\ stack' = <<>>
    /\ ret' = None
    /\ status' = "raised"
    /\ outcome' = ParserError(message, c.line, c.column)
    /\ log' = Append(log, [text |-> text, outcome |-> ParserError(message, c.line, c.column)])
    /\ UNCHANGED <<text, constants, queue, decls>>

(* ------------------------------------------------------------------ *)
(* Control: what a step of a method does to the call stack             *)
(* ------------------------------------------------------------------ *)

\* go on in the same method, its frame now f, the cursor at c
Goto(f, c) ==
    /\ SetCursor(c)
    /\ stack' = [stack EXCEPT ![Len(stack)] = f]
    /\ UNCHANGED <<text, constants, ret, status, outcome, queue, log, decls>>

\* call method fn, to go on at frame f when it returns
Call(f, fn, c) ==
    /\ SetCursor(c)
    /\ stack' = Append([stack EXCEPT ![Len(stack)] = f], Frame(fn))
    /\ UNCHANGED <<text, constants, ret, status, outcome, queue, log, decls>>

\* return v to the calling method
Return(v, c) ==
    /\ SetCursor(c)
    /\ stack' = SubSeq(stack, 1, Len(stack) - 1)
    /\ ret' = v
    /\ UNCHANGED <<text, constants, status, outcome, queue, log, decls>>

\* parse returns v to its caller
Finish(v) ==
    /\ stack' = <<>>
    /\ ret' = None
    /\ status' = "returned"
    /\ outcome' = Returned(v)
    /\ log' = Append(log, [text |-> text, outcome |-> Returned(v)])
    /\ UNCHANGED <<text, pos, line, column, constants, queue, decls>>

(* ------------------------------------------------------------------ *)
(* The methods                                                         *)
(* ------------------------------------------------------------------ *)

Init ==
    /\ text = <<>>
    /\ pos = 0
    /\ line = 1
    /\ column = 1
    /\ constants = EmptyDict
    /\ stack = <<>>
    /\ ret = None
    /\ status = "idle"
    /\ outcome = NoOutcome
    /\ queue \in Schedules
    /\ log = <<>>
    /\ decls = <<>>

\* the caller calls parse(text): reset(), self.text = text, and the first
\* skip_whitespace_and_comments() is called
parse_call ==
    /\ status # "running"
    /\ queue # <<>>
    /\ text' = Head(queue)
    /\ queue' = Tail(queue)
    /\ pos' = reset.pos
    /\ line' = reset.line
    /\ column' = reset.column
    /\ constants' = reset.constants
    /\ stack' = <<[Frame("parse") EXCEPT !.pc = "dispatch"], Frame("skip_whitespace_and_comments")>>
    /\ ret' = None
    /\ status' = "running"
    /\ outcome' = NoOutcome
    /\ decls' = <<>>
    /\ UNCHANGED log

\* parse, after the first skip
parse ==
    /\ At("parse")
    /\ LET f == Top
           c == Cursor
       IN CASE f.pc = "dispatch" ->
                 IF peek(pos, 5) = KwTable
                 THEN Call([f EXCEPT !.pc = "table_done"], "parse_table", c)
                 ELSE Goto([f EXCEPT !.pc = "loop"], c)
            [] f.pc = "table_done" -> Finish(ret)
            [] f.pc = "loop" ->
                 IF pos < Len(text)
                 THEN Call([f EXCEPT !.pc = "loop_check", !.mark = pos],
                           "skip_whitespace_and_comments", c)
                 ELSE Finish(TableV(constants))
            [] f.pc = "loop_check" ->
                 IF pos >= Len(text)
                 THEN Finish(TableV(constants))
                 ELSE Call([f EXCEPT !.pc = "loop"], "parse_constant_declaration", c)

\* the comment loop as it would be without its else: the end of the input
\* ends the comment
comment_unterminated_accepted(c) == Return(None, c)

\* the else of the comment loop: the input ended inside a comment
comment_unterminated(c) == error(ErrUnterminatedComment, c)

skip_whitespace_and_comments ==
    /\ At("skip_whitespace_and_comments")
    /\ LET f == Top
           c == Cursor
       IN CASE f.pc = "begin" ->
                 IF pos < Len(text)
                 THEN IF text[pos + 1] \in {" ", "\t", "\r"} THEN Goto(f, consume(c, 1))
                      ELSE IF text[pos + 1] = "\n" THEN Goto(f, consume(c, 1))
                      ELSE IF peek(pos, 2) = CommentOpen
                           THEN Goto([f EXCEPT !.pc = "comment"], consume(c, 2))
                      ELSE Return(None, c)
                 ELSE Return(None, c)
            [] f.pc = "comment" ->
                 IF pos < Len(text) - 1
                 THEN IF peek(pos, 2) = CommentClose
                      THEN Goto([f EXCEPT !.pc = "begin"], consume(c, 2))
                      ELSE Goto(f, consume(c, 1))
                 ELSE comment_unterminated(c)

parse_name ==
    /\ At("parse_name")
    /\ LET f == Top
           c == Cursor
       IN CASE f.pc = "begin" ->
                 Call([f EXCEPT !.pc = "start"], "skip_whitespace_and_comments", c)
            [] f.pc = "start" -> Goto([f EXCEPT !.pc = "scan", !.start = pos], c)
            [] f.pc = "scan" ->
                 IF pos < Len(text) /\ isupper(text[pos + 1])
                 THEN Goto(f, consume(c, 1))
                 ELSE IF pos = f.start
                      THEN error(ErrExpectedName, c)
                      ELSE Return(NameV(SubSeq(text, f.start + 1, pos)), c)

parse_binary_number ==
    /\ At("parse_binary_number")
    /\ LET f == Top
           c == Cursor
       IN CASE f.pc = "begin" ->
                 Call([f EXCEPT !.pc = "prefix"], "skip_whitespace_and_comments", c)
            [] f.pc = "prefix" ->
                 IF lower(peek(pos, 2)) # <<"0", "b">>
                 THEN error(ErrExpectedBinaryNumber, c)
                 ELSE Goto([f EXCEPT !.pc = "digits", !.start = consume(c, 2).pos],
                           consume(c, 2))
            [] f.pc = "digits" ->
                 IF pos < Len(text) /\ text[pos + 1] \in {"0", "1"}
                 THEN Goto(f, consume(c, 1))
                 ELSE IF pos = f.start
                      THEN error(ErrMissingBinaryDigits, c)
                      ELSE Return(IntV(int2(SubSeq(text, f.start + 1, pos))), c)

parse_constant_reference ==
    /\ At("parse_constant_reference")
    /\ LET f == Top
           c == Cursor
       IN CASE f.pc = "begin" ->
                 LET m == match(c, Dot)
                 IN IF ~m.ok THEN error(ErrExpectedRefDot, c)
                    ELSE Call([f EXCEPT !.pc = "open"], "skip_whitespace_and_comments", m.cur)
            [] f.pc = "open" ->
                 LET m == match(c, LParen)
                 IN IF ~m.ok THEN error(ErrExpectedRefOpenParen, c)
                    ELSE Call([f EXCEPT !.pc = "named"], "parse_name", m.cur)
            [] f.pc = "named" ->
                 Call([f EXCEPT !.pc = "close", !.name = ret.val], "skip_whitespace_and_comments", c)
            [] f.pc = "close" ->
                 LET m == match(c, RParen)
                 IN IF ~m.ok THEN error(ErrExpectedRefCloseParen, c)
                    ELSE Call([f EXCEPT !.pc = "dot"], "skip_whitespace_and_comments", m.cur)
            [] f.pc = "dot" ->
                 LET m == match(c, Dot)
                 IN IF ~m.ok THEN error(ErrExpectedTrailingDot, c)
                    ELSE IF f.name \notin DOMAIN constants
                         THEN error(ErrUndefinedConstant, m.cur)
                         ELSE Return(constants[f.name], m.cur)

parse_value ==
    /\ At("parse_value")
    /\ LET f == Top
           c == Cursor
       IN CASE f.pc = "begin" ->
                 Call([f EXCEPT !.pc = "dispatch"], "skip_whitespace_and_comments", c)
            [] f.pc = "dispatch" ->
                 IF peek(pos, 2) = <<".", "(">>
                 THEN Call([f EXCEPT !.pc = "done"], "parse_constant_reference", c)
                 ELSE IF lower(peek(pos, 2)) = <<"0", "b">>
                 THEN Call([f EXCEPT !.pc = "done"], "parse_binary_number", c)
                 ELSE IF peek(pos, 5) = KwTable
                 THEN Call([f EXCEPT !.pc = "done"], "parse_table", c)
                 ELSE error(ErrExpectedValue, c)
            [] f.pc = "done" -> Return(ret, c)

parse_table ==
    /\ At("parse_table")
    /\ LET f == Top
           c == Cursor
       IN CASE f.pc = "begin" ->
                 LET m == match(c, KwTable)
                 IN IF ~m.ok THEN error(ErrExpectedTable, c)
                    ELSE Call([f EXCEPT !.pc = "open"], "skip_whitespace_and_comments", m.cur)
            [] f.pc = "open" ->
                 LET m == match(c, LParen)
                 IN IF ~m.ok THEN error(ErrExpectedTableOpenParen, c)
                    ELSE Call([f EXCEPT !.pc = "bracket"], "skip_whitespace_and_comments", m.cur)
            [] f.pc = "bracket" ->
                 LET m == match(c, LBracket)
                 IN IF ~m.ok THEN error(ErrExpectedOpenBracket, c)
                    ELSE Goto([f EXCEPT !.pc = "loop", !.result = EmptyDict, !.first = TRUE],
                              m.cur)
            [] f.pc = "loop" ->
                 Call([f EXCEPT !.pc = "close_check", !.mark = pos],
                      "skip_whitespace_and_comments", c)
            [] f.pc = "close_check" ->
                 IF peek(pos, 1) = RBracket
                 THEN Call([f EXCEPT !.pc = "close"], "skip_whitespace_and_comments",
                           consume(c, 1))
                 ELSE IF ~f.first
                 THEN LET m == match(c, Comma)
                      IN IF ~m.ok THEN error(ErrExpectedComma, c)
                         ELSE Call([f EXCEPT !.pc = "entry"], "skip_whitespace_and_comments",
                                   m.cur)
                 ELSE Call([f EXCEPT !.pc = "named"], "parse_name", c)
            [] f.pc = "entry" -> Call([f EXCEPT !.pc = "named"], "parse_name", c)
            [] f.pc = "named" ->
                 Call([f EXCEPT !.pc = "equals", !.name = ret.val], "skip_whitespace_and_comments", c)
            [] f.pc = "equals" ->
                 LET m == match(c, Equals)
                 IN IF ~m.ok THEN error(ErrExpectedEquals, c)
                    ELSE Call([f EXCEPT !.pc = "valued"], "parse_value", m.cur)
            [] f.pc = "valued" ->
                 Goto([f EXCEPT !.pc = "loop", !.result = SetItem(f.result, f.name, ret),
                                !.first = FALSE], c)
            [] f.pc = "close" ->
                 LET m == match(c, RParen)
                 IN IF m.ok THEN Return(TableV(f.result), m.cur)
                    ELSE error(ErrExpectedTableCloseParen, c)

\* the binding as it would be if a bound name kept its first value
bind_keeps_first(k, name, value) == IF name \in DOMAIN k THEN k ELSE SetItem(k, name, value)

\* self.constants[name] = value
bind(k, name, value) == SetItem(k, name, value)

parse_constant_declaration ==
    /\ At("parse_constant_declaration")
    /\ LET f == Top
           c == Cursor
       IN CASE f.pc = "begin" -> Call([f EXCEPT !.pc = "valued"], "parse_value", c)
            [] f.pc = "valued" ->
                 Call([f EXCEPT !.pc = "arrow", !.value = ret], "skip_whitespace_and_comments", c)
            [] f.pc = "arrow" ->
                 LET dash == match(c, <<"-">>)
                     greater == match(dash.cur, <<">">>)
                 IN IF ~dash.ok THEN error(ErrExpectedDash, c)
                    ELSE IF ~greater.ok THEN error(ErrExpectedGreater, dash.cur)
                    ELSE Call([f EXCEPT !.pc = "named"], "parse_name", greater.cur)
            [] f.pc = "named" ->
                 Call([f EXCEPT !.pc = "semi", !.name = ret.val], "skip_whitespace_and_comments", c)
            [] f.pc = "semi" ->
                 /\ SetCursor(IF peek(pos, 1) = Semi THEN consume(c, 1) ELSE c)
                 /\ constants' = bind(constants, f.name, f.value)
                 /\ decls' = Append(decls, <<f.name, f.value>>)
                 /\ stack' = SubSeq(stack, 1, Len(stack) - 1)
                 /\ ret' = None
                 /\ UNCHANGED <<text, status, outcome, queue, log>>

Next ==
    \/ parse_call
    \/ parse
    \/ skip_whitespace_and_comments
    \/ parse_name
    \/ parse_binary_number
    \/ parse_constant_reference
    \/ parse_value
    \/ parse_table
    \/ parse_constant_declaration

Spec == Init /\ [][Next]_vars

\* the interpreter runs a started call on: no step waits for anything
FairSpec == Init /\ [][Next]_vars /\ WF_vars(Next)

(* ------------------------------------------------------------------ *)
(* What the claims speak of                                            *)
(* ------------------------------------------------------------------ *)

Finished == status \in {"returned", "raised"}

Max(S) == CHOOSE x \in S : \A y \in S : y <= x
Min(S) == CHOOSE x \in S : \A y \in S : x <= y

\* the number a run of binary digits denotes, place by place
RECURSIVE Pow2(_)
Pow2(k) == IF k = 0 THEN 1 ELSE 2 * Pow2(k - 1)
RECURSIVE PlaceSum(_, _)
PlaceSum(d, i) ==
    IF i > Len(d) THEN 0
    ELSE (IF d[i] = "1" THEN Pow2(Len(d) - i) ELSE 0) + PlaceSum(d, i + 1)
Base2(d) == PlaceSum(d, 1)

\* the names used as keys anywhere in a value
RECURSIVE Keys(_)
Keys(v) ==
    IF v.tag = "table"
    THEN (DOMAIN v.val) \cup UNION {Keys(v.val[k]) : k \in DOMAIN v.val}
    ELSE {}

\* the first index at or after i (counted from 0) where pat stands in t, or -1
FirstAt(t, i, pat) ==
    LET I == {j \in i..(Len(t) - Len(pat)) : SubSeq(t, j + 1, j + Len(pat)) = pat}
    IN IF I = {} THEN -1 ELSE Min(I)

\* the index of the first comment start marker, outside any earlier comment,
\* that no end marker follows, or -1
RECURSIVE UnterminatedAt(_, _)
UnterminatedAt(t, i) ==
    LET open == FirstAt(t, i, CommentOpen)
        close == FirstAt(t, open + 2, CommentClose)
    IN IF open = -1 THEN -1
       ELSE IF close = -1 THEN open
       ELSE UnterminatedAt(t, close + 2)
Marker == UnterminatedAt(text, 0)

\* the value last bound to name n by the declarations ds
Bindings(ds, n) == {i \in 1..Len(ds) : ds[i][1] = n}
LastBound(ds, n) == ds[Max(Bindings(ds, n))][2]

(* ------------------------------------------------------------------ *)
(* The claims                                                          *)
(* ------------------------------------------------------------------ *)

\* a step in which parse_constant_reference returns: it returns the value of the
\* last declaration of the name made so far
ReferenceReturnsLastBound ==
    (At("parse_constant_reference") /\ Top.pc = "dot" /\ status' = "running")
        => /\ Bindings(decls, Top.name) # {}
           /\ ret' = LastBound(decls, Top.name)
\* what the two redeclaration documents give, for every pair of number literals
RedeclaredOutcomes ==
    (Finished /\ text \in RedeclDocs) => \A d1, d2 \in DigitRuns :
        /\ (Finished /\ text = RedeclThenRefDoc(d1, d2))
              => outcome = Returned(TableV(SetItem(SetItem(EmptyDict, NameX, IntV(Base2(d2))),
                                                   NameY, IntV(Base2(d2)))))
        /\ (Finished /\ text = RefThenRedeclDoc(d1, d2))
              => outcome = Returned(TableV(SetItem(SetItem(EmptyDict, NameX, IntV(Base2(d2))),
                                                   NameY, IntV(Base2(d1)))))
\* C2: a reference .(NAME). returns the value the last declaration of NAME before
\* it bound: a redeclaration raises nothing, a reference after it sees the new
\* value (0b d1 -> X, 0b d2 -> X, .(X). -> Y gives Y = d2 and X = d2), and a value
\* got through an earlier reference stays (0b d1 -> X, .(X). -> Y, 0b d2 -> X
\* gives Y = d1 and X = d2).
C2_ReferenceSeesLatestDeclaration ==
    [][ReferenceReturnsLastBound]_vars /\ []RedeclaredOutcomes
C2_Witness ==
    /\ status = "returned"
    /\ text = RefThenRedeclDoc(<<"1">>, <<"1", "0">>)
    /\ outcome.value.val[NameY] = IntV(1)
    /\ outcome.value.val[NameX] = IntV(2)

\* C7: a call parse(t) made after any earlier calls on the instance, returned or
\* raised, gives what the first call on a new instance gives for t: the same
\* value, or the same error at the same line and column.
C7_ReuseGivesFreshOutcome ==
    \A j \in 1..Len(log) : log[j].text = log[1].text => log[j].outcome = log[1].outcome
C7_Witness ==
    /\ Len(log) = 3
    /\ log[1].text = Flatten(DocUndefined)
    /\ log[2].text = Flatten(DocDecl)
    /\ log[2].outcome.kind = "returned"
    /\ log[3].text = log[1].text
    /\ log[3].outcome.kind = ErrUndefinedConstant

\* the places of the line feeds in text[0:pos]
LineFeeds == {i \in 1..pos : text[i] = "\n"}

\* C9: in every state of a parse, and when a ParserError is raised,
\* 0 <= pos <= len(text), line is 1 plus the line feeds in text[0:pos], column is 1
\* plus the characters after the last of them (or after the start of the text), and
\* the error carries that line and column.
C9_PositionTracksText ==
    /\ 0 <= pos
    /\ pos <= Len(text)
    /\ line = 1 + Cardinality(LineFeeds)
    /\ column = 1 + pos - (IF LineFeeds = {} THEN 0 ELSE Max(LineFeeds))
    /\ status = "raised" => (outcome.line = line /\ outcome.column = column)
C9_Witness ==
    /\ status = "raised"
    /\ pos < Len(text)
    /\ line > 1
    /\ column > 2

\* a round of the skipping loops that stays in the loop moves the cursor forward
SkipLoopAdvances ==
    (At("skip_whitespace_and_comments") /\ status' = "running" /\ Len(stack') = Len(stack))
        => pos' > pos
\* back at the head of the declaration loop or of the table-entry loop, the
\* cursor is past where the round began
EntryLoopsAdvance ==
    (At("parse") \/ At("parse_table")) /\ Top.pc = "loop" => pos > Top.mark
\* the declaration loop returns exactly when the cursor is at the end of the text
DeclarationLoopEnds ==
    (At("parse") /\ Top.pc \in {"loop", "loop_check"})
        => ((status' = "returned") <=> (pos = Len(text)))
\* C10: every parse call ends, returning or raising; a round of the skipping
\* loops, of the table-entry loop and of the declaration loop moves the cursor
\* forward or raises; the declaration loop ends exactly when the cursor is at the
\* end of the text.
C10_ParseTerminates ==
    /\ (status = "running") ~> Finished
    /\ [][SkipLoopAdvances /\ DeclarationLoopEnds]_vars
    /\ []EntryLoopsAdvance
C10_Witness ==
    /\ status = "returned"
    /\ Len(decls) >= 2
    /\ pos = Len(text)
    /\ Marker = -1
    /\ FirstAt(text, 0, CommentOpen) >= 0

\* C4 as claimed: a text with a comment start marker that no end marker follows,
\* and no other error up to that marker, makes parse raise the
\* unterminated-comment error, wherever the marker stands.
C4_UnterminatedAlwaysRaises ==
    (Finished /\ Marker >= 0)
        => /\ status = "raised"
           /\ (outcome.kind = ErrUnterminatedComment \/ pos <= Marker)

\* an error raised on such a text is the unterminated-comment error, or stands at
\* or before the marker
RaisesAtOrBeforeMarker ==
    (status = "raised" /\ Marker >= 0)
        => (outcome.kind = ErrUnterminatedComment \/ pos <= Marker)
\* on such a text parse returns only the top-level table, closed before the marker
ReturnsOnlyTopLevelTable ==
    (status' = "returned" /\ UnterminatedAt(text', 0) >= 0 /\ status = "running")
        => (At("parse") /\ Top.pc = "table_done" /\ pos <= Marker /\ ret.tag = "table")
\* C4 as amended: on such a text parse raises the unterminated-comment error, or
\* another error at or before the marker, and returns only from a top-level
\* table that closes before the marker, which is then never read.
C4_UnterminatedRaisesWhereRead ==
    []RaisesAtOrBeforeMarker /\ [][ReturnsOnlyTopLevelTable]_vars
C4_Witness ==
    /\ status = "raised"
    /\ outcome.kind = ErrUnterminatedComment
    /\ Marker > 0
    /\ Len(stack) = 0
    /\ FirstAt(text, 0, KwTable) = 0

\* C1 as claimed: a table text that parses, with a comma (and whitespace) put
\* after the last entry of a table, parses to the same value.
C1_TrailingCommaAccepted ==
    (Len(log) = 2 /\ <<log[1].text, log[2].text>> \in TrailingCommaPairs
        /\ log[1].outcome.kind = "returned")
        => log[2].outcome = log[1].outcome

\* 0b1 -> X followed by table([A = .(X).]), bare and with separators
DeclThenTableTexts ==
    {Flatten(DocDeclThenTable)}
        \cup {TokenInsert(DocDeclThenTable, i, sep) :
                 i \in {0, 3, Len(DocDeclThenTable)}, sep \in Separators}
\* C3 as claimed: declarations followed by a table that no '-> NAME' follows parse,
\* and the returned value holds the constants and the table's entries.
C3_DeclarationsThenTableParse ==
    (Finished /\ text \in DeclThenTableTexts)
        => /\ outcome.kind = "returned"
           /\ {NameX, NameA} \subseteq DOMAIN outcome.value.val
           /\ outcome.value.val[NameX] = IntV(1)
           /\ outcome.value.val[NameA] = IntV(1)

\* C5 as claimed: every name of a returned value is made of the letters A-Z only.
C5_NamesAreAsciiUppercase ==
    status = "returned"
        => \A name \in Keys(outcome.value) : \A i \in DOMAIN name : name[i] \in AsciiUpper

\* C6 as claimed: a document that parses, with whitespace or a terminated comment
\* put between two adjacent tokens, parses to the same value.
C6_SeparatorsChangeNothing ==
    (Len(log) = 2 /\ <<log[1].text, log[2].text>> \in SeparatedPairs
        /\ log[1].outcome.kind = "returned")
        => log[2].outcome = log[1].outcome

\* C8 as claimed: a declaration whose number has the digit 2 directly after its
\* binary digits raises parse_binary_number's error about binary digits.
C8_InvalidDigitRaisesBinaryError ==
    (Finished /\ text \in InvalidBinDocs)
        => /\ status = "raised"
           /\ outcome.kind \in {ErrMissingBinaryDigits, ErrInvalidBinaryNumber}
====
